---- MODULE Spec2Model ----
(***************************************************************************)
(* Rolling z-score outlier detection (anomaly_detection/z_score.py) fed by *)
(* the procedural energy data source (energy_data/data.py).                *)
(*                                                                         *)
(* Numbers.  A sample value is a record [t, n]: t = "fin" is the finite    *)
(* number n, "inf" / "ninf" / "nan" are the IEEE values of a Python float, *)
(* and "str" is a value that is no int or float at all.  Finite values are *)
(* integers and the arithmetic on them is exact; rolling_mean, a quotient  *)
(* by `window`, is carried as its numerator over the denominator `window`. *)
(* Floating-point rounding and overflow of finite values are not modelled. *)
(***************************************************************************)
EXTENDS Integers, Sequences, FiniteSets, TLC

\* ------------------------------------------------------------------ bounds

\* Number of items taken from the live stream in one run.
MaxLive == 2

\* Largest rolling window size tried.
MaxWindow == 3

\* ------------------------------------------------------- program constants

\* Default of get_historical_energy_data's timestamp_increment (one day).
DefaultIncrement == 86400

\* ----------------------------------------------------------------- numbers

Fin(n) == [t |-> "fin", n |-> n]
NaN == [t |-> "nan", n |-> 0]
PosInf == [t |-> "inf", n |-> 0]
NegInf == [t |-> "ninf", n |-> 0]
NotANumber == [t |-> "str", n |-> 0]

IsFinite(a) == a.t = "fin"

\* Sign of a float that is not NaN: -1, 0 or 1.
Sign(a) ==
  CASE a.t = "inf" -> 1
    [] a.t = "ninf" -> -1
    [] OTHER -> IF a.n > 0 THEN 1 ELSE IF a.n < 0 THEN -1 ELSE 0

\* -a
XNeg(a) ==
  CASE a.t = "fin" -> Fin(-a.n)
    [] a.t = "inf" -> NegInf
    [] a.t = "ninf" -> PosInf
    [] OTHER -> a

\* a + b on floats: NaN is absorbing, inf + (-inf) is NaN.
XAdd(a, b) ==
  CASE a.t = "nan" \/ b.t = "nan" -> NaN
    [] a.t = "fin" /\ b.t = "fin" -> Fin(a.n + b.n)
    [] a.t = "fin" -> b
    [] b.t = "fin" -> a
    [] a.t = b.t -> a
    [] OTHER -> NaN

\* a - b
XSub(a, b) == XAdd(a, XNeg(b))

\* a * b on floats: NaN is absorbing, 0 * inf is NaN.
XMul(a, b) ==
  CASE a.t = "nan" \/ b.t = "nan" -> NaN
    [] a.t = "fin" /\ b.t = "fin" -> Fin(a.n * b.n)
    [] Sign(a) * Sign(b) = 0 -> NaN
    [] Sign(a) * Sign(b) > 0 -> PosInf
    [] OTHER -> NegInf

\* value ** 2
Square(a) == XMul(a, a)

\* ceil(a / b) and floor(a / b) for b > 0.
Ceil(a, b) == -((-a) \div b)
Floor(a, b) == a \div b

\* ------------------------------------------------------------- sequences

Last(s) == s[Len(s)]

\* The last n elements of s (all of s when it has fewer).
LastN(s, n) == IF Len(s) <= n THEN s ELSE SubSeq(s, Len(s) - n + 1, Len(s))

\* ------------------------------------------------- energy_data/data.py

\* get_historical_energy_data(start, end): the first timestamp of the list
\* it returns and the number of its items.  z_score.py calls it with two
\* arguments, so its step is DefaultIncrement.  The values of the items are
\* those of _get_energy_value, drawn when the bootstrap loop reads them.
HistoricalFirstTimestamp(start) == Ceil(start, DefaultIncrement) * DefaultIncrement

HistoricalSteps(start, end) ==
  LET steps == Floor(end - HistoricalFirstTimestamp(start), DefaultIncrement) + 1
  IN  IF steps < 0 THEN 0 ELSE steps

\* generate_energy_data_stream: its argument check, and its first timestamp
\* when the clock reads `clock` at its first iteration.
StreamArgumentsInvalid(increment, delay) == increment <= 0 \/ delay <= 0

StreamFirstTimestamp(clock, increment) == Ceil(clock, increment) * increment

\* --------------------------------------------- anomaly_detection/z_score.py

\* The sanity check of both loops:
\*   not isinstance(value, (int, float)) or value < 0
LessThanZero(v) == (v.t = "fin" /\ v.n < 0) \/ v.t = "ninf"

\* Variant: the check without its `or value < 0`.
InvalidTypeOnly(v) == v.t = "str"

Invalid(v) == v.t = "str" \/ LessThanZero(v)

\* window ** 2 times the radicand of rolling_std,
\*   window * rolling_mean ** 2 - 2 * rolling_mean * rolling_sum + rolling_squared_sum
\* with rolling_mean = rolling_sum / window.
Radicand(sum, squared_sum, w) ==
  XAdd(XSub(XMul(Fin(w), XMul(sum, sum)), XMul(Fin(2 * w), XMul(sum, sum))),
       XMul(Fin(w * w), squared_sum))

\* window times (value - rolling_mean).
Deviation(v, sum, w) == XSub(XMul(Fin(w), v), sum)

\* What lines 119-121 do with the accumulators: math.sqrt raises on a
\* negative radicand, the division raises on rolling_std = 0, and otherwise
\* is_outlier is computed.
Statistics(sum, squared_sum, w) ==
  LET rad == Radicand(sum, squared_sum, w)
  IN  CASE rad.t = "ninf" \/ (rad.t = "fin" /\ rad.n < 0) -> "MathDomainError"
        [] rad.t = "fin" /\ rad.n = 0 -> "ZeroDivisionError"
        [] OTHER -> "ok"

\* Variant of IsOutlier: the comparison of line 121 turned round, < for >.
IsOutlierInverted(v, sum, squared_sum, w, thr) ==
  LET rad == XAdd(XSub(XMul(Fin(w), XMul(sum, sum)), XMul(Fin(2 * w), XMul(sum, sum))),
                  XMul(Fin(w * w), squared_sum))
      dev == XSub(XMul(Fin(w), v), sum)
  IN  CASE rad.t = "nan" \/ dev.t = "nan" -> FALSE
        [] rad.t = "inf" /\ dev.t # "fin" -> FALSE
        [] rad.t = "inf" -> 0 < thr[1]
        [] dev.t # "fin" -> FALSE
        [] OTHER -> /\ thr[1] > 0
                    /\ dev.n * dev.n * (w - 1) * thr[2] * thr[2] < thr[1] * thr[1] * rad.n

\* Variant of IsOutlier: rolling_std as math.sqrt(radicand) / (window - 1),
\* the division moved out of the square root.
IsOutlierStdDivided(v, sum, squared_sum, w, thr) ==
  LET rad == XAdd(XSub(XMul(Fin(w), XMul(sum, sum)), XMul(Fin(2 * w), XMul(sum, sum))),
                  XMul(Fin(w * w), squared_sum))
      dev == XSub(XMul(Fin(w), v), sum)
  IN  CASE rad.t = "nan" \/ dev.t = "nan" -> FALSE
        [] rad.t = "inf" /\ dev.t # "fin" -> FALSE
        [] rad.t = "inf" -> 0 > thr[1]
        [] dev.t # "fin" -> TRUE
        [] OTHER -> \/ thr[1] < 0
                    \/ dev.n * dev.n * (w - 1) * (w - 1) * thr[2] * thr[2]
                         > thr[1] * thr[1] * rad.n

\* Variant of IsOutlier: the comparison written `>= threshold`.
IsOutlierAtLeast(v, sum, squared_sum, w, thr) ==
  LET rad == XAdd(XSub(XMul(Fin(w), XMul(sum, sum)), XMul(Fin(2 * w), XMul(sum, sum))),
                  XMul(Fin(w * w), squared_sum))
      dev == XSub(XMul(Fin(w), v), sum)
  IN  CASE rad.t = "nan" \/ dev.t = "nan" -> FALSE
        [] rad.t = "inf" /\ dev.t # "fin" -> FALSE
        [] rad.t = "inf" -> 0 >= thr[1]
        [] dev.t # "fin" -> TRUE
        [] OTHER -> \/ thr[1] < 0
                    \/ dev.n * dev.n * (w - 1) * thr[2] * thr[2] >= thr[1] * thr[1] * rad.n

\* abs((value - rolling_mean) / rolling_std) > threshold, for a radicand that
\* is positive, infinite or NaN.  thr = <<p, q>> is the threshold p / q, q > 0.
\* With z the quotient: z ** 2 = dev ** 2 * (window - 1) / rad.
IsOutlier(v, sum, squared_sum, w, thr) ==
  LET rad == Radicand(sum, squared_sum, w)
      dev == Deviation(v, sum, w)
  IN  CASE rad.t = "nan" \/ dev.t = "nan" -> FALSE
        [] rad.t = "inf" /\ dev.t # "fin" -> FALSE
        [] rad.t = "inf" -> 0 > thr[1]
        [] dev.t # "fin" -> TRUE
        [] OTHER -> \/ thr[1] < 0
                    \/ dev.n * dev.n * (w - 1) * thr[2] * thr[2] > thr[1] * thr[1] * rad.n

\* ------------------------------------------------------------ environment

\* Values the two data sources produce: finite non-negative numbers, a
\* negative number, a value that is no number, and the non-finite floats.
Values == {Fin(10), Fin(11), Fin(-1), NotANumber, NaN, PosInf}

\* The values of the known-distribution fixture, and a negative one.
KnownValues == {Fin(10), Fin(11), Fin(100), Fin(-1)}

\* The values of the threshold fixture: three finite values in arithmetic
\* progression, a negative one and NaN.
ThresholdValues == {Fin(10), Fin(11), Fin(12), Fin(-1), NaN}

\* Thresholds <<p, q>> (p / q): the default 2.25, 0 and -1.
Thresholds == {<<9, 4>>, <<0, 1>>, <<-1, 1>>}

\* timestamp_increment: the default, half a day, and an invalid one.
Increments == {DefaultIncrement, DefaultIncrement \div 2, 0}

StreamDelays == {1, 0}

\* time.time() when process_z_score_outliers starts: an exact multiple of
\* the increment, just after one, and more than half an increment after one.
Clocks == {10 * DefaultIncrement, 10 * DefaultIncrement + 1, 10 * DefaultIncrement + 50000}

\* Time that passes between the start and the stream's first iteration.
Elapsed == {0, 1}

\* ------------------------------------------------------------------ state

VARIABLES
  window, threshold, timestamp_increment, stream_delay, \* the arguments
  domain,                  \* the values the data sources may produce
  pc,                      \* "start", "bootstrap", "await", "admitted", "yielded", "raised"
  err,                     \* the exception raised, "none" before
  historial_data_end_date, \* time.time() at line 74
  historical_energy_data,  \* the list the lookup returned: its first timestamp,
                           \* the step between its timestamps, its length
  lookups,                 \* number of calls of get_historical_data
  hi,                      \* number of historical items the bootstrap loop has read
  rolling_sum, rolling_squared_sum,
  window_values, window_squared_values,
  stream_timestamp, count, \* generate_energy_data_stream's timestamp and count
  timestamp, value,        \* the loop variables of process_z_score_outliers
  output,                  \* the decisions yielded so far
  live,                    \* history: the items the live stream has yielded
  accepted                 \* history: the values admitted to the window, in order

vars ==
  <<window, threshold, timestamp_increment, stream_delay, domain, pc, err,
    historial_data_end_date, historical_energy_data, lookups, hi, rolling_sum,
    rolling_squared_sum, window_values, window_squared_values, stream_timestamp,
    count, timestamp, value, output, live, accepted>>

arguments == <<window, threshold, timestamp_increment, stream_delay, domain>>
lookup == <<historial_data_end_date, historical_energy_data, lookups>>
accumulators == <<rolling_sum, rolling_squared_sum, window_values, window_squared_values>>
stream == <<stream_timestamp, count, live>>

InitState ==
  /\ pc = "start"
  /\ err = "none"
  /\ historical_energy_data = [timestamp |-> 0, increment |-> 0, steps |-> 0]
  /\ lookups = 0
  /\ hi = 0
  /\ rolling_sum = Fin(0)
  /\ rolling_squared_sum = Fin(0)
  /\ window_values = <<>>
  /\ window_squared_values = <<>>
  /\ stream_timestamp = 0
  /\ count = 0
  /\ timestamp = 0
  /\ value = Fin(0)
  /\ output = <<>>
  /\ live = <<>>
  /\ accepted = <<>>

Init ==
  /\ window \in 0..MaxWindow
  /\ threshold \in Thresholds
  /\ timestamp_increment \in Increments
  /\ stream_delay \in StreamDelays
  /\ domain = Values
  /\ historial_data_end_date \in Clocks
  /\ InitState

\* The known-distribution fixture: window = 4, threshold = 2.25, the clock
\* at an exact multiple of the increment or just after it.
InitKnown ==
  /\ window = 4
  /\ threshold = <<9, 4>>
  /\ timestamp_increment = DefaultIncrement
  /\ stream_delay = 1
  /\ domain = KnownValues
  /\ historial_data_end_date \in {10 * DefaultIncrement, 10 * DefaultIncrement + 1}
  /\ InitState

\* The threshold fixture: window = 3 and a threshold that is not positive.
InitThreshold ==
  /\ window = 3
  /\ threshold \in {<<0, 1>>, <<-1, 1>>}
  /\ timestamp_increment = DefaultIncrement
  /\ stream_delay = 1
  /\ domain = ThresholdValues
  /\ historial_data_end_date \in {10 * DefaultIncrement, 10 * DefaultIncrement + 1}
  /\ InitState

\* ---------------------------------------------------------------- actions

\* Variant of WindowRejected: the check written `window < 1`.
WindowRejectedBelowOne(w) == w < 1

\* Line 69: the window check.
WindowRejected(w) == w <= 1

\* Lines 69-86: the window check, the historical lookup, the empty state.
Start ==
  /\ pc = "start"
  /\ IF WindowRejected(window)
       THEN /\ pc' = "raised"
            /\ err' = "WindowValueError"
            /\ UNCHANGED <<historical_energy_data, lookups>>
       ELSE LET end == historial_data_end_date
                start == end - (window - 1) * timestamp_increment
            IN  /\ historical_energy_data' =
                     [timestamp |-> HistoricalFirstTimestamp(start),
                      increment |-> DefaultIncrement,
                      steps |-> HistoricalSteps(start, end)]
                /\ lookups' = lookups + 1
                /\ pc' = "bootstrap"
                /\ err' = err
  /\ hi' = 0
  /\ rolling_sum' = Fin(0)
  /\ rolling_squared_sum' = Fin(0)
  /\ window_values' = <<>>
  /\ window_squared_values' = <<>>
  /\ UNCHANGED <<arguments, historial_data_end_date, stream, timestamp, value, output, accepted>>

\* Lines 89-93: the bootstrap loop reads an invalid historical value.
BootstrapDiscard(v) ==
  /\ pc = "bootstrap"
  /\ hi < historical_energy_data.steps
  /\ Invalid(v)
  /\ value' = v
  /\ hi' = hi + 1
  /\ UNCHANGED <<arguments, pc, err, lookup, accumulators, stream, timestamp, output, accepted>>

\* Lines 89-99: the bootstrap loop reads a historical value that passes.
BootstrapAccept(v) ==
  /\ pc = "bootstrap"
  /\ hi < historical_energy_data.steps
  /\ ~Invalid(v)
  /\ value' = v
  /\ hi' = hi + 1
  /\ rolling_sum' = XAdd(rolling_sum, v)
  /\ window_values' = Append(window_values, v)
  /\ rolling_squared_sum' = XAdd(rolling_squared_sum, Square(v))
  /\ window_squared_values' = Append(window_squared_values, Square(v))
  /\ accepted' = Append(accepted, v)
  /\ UNCHANGED <<arguments, pc, err, lookup, stream, timestamp, output>>

\* Line 102, first iteration: generate_data_stream checks its arguments
\* and rounds the clock up to its first timestamp (data.py 137-144).
StartStream(elapsed) ==
  /\ pc = "bootstrap"
  /\ hi >= historical_energy_data.steps
  /\ IF StreamArgumentsInvalid(timestamp_increment, stream_delay)
       THEN /\ pc' = "raised"
            /\ err' = "StreamValueError"
            /\ UNCHANGED stream_timestamp
       ELSE /\ pc' = "await"
            /\ err' = err
            /\ stream_timestamp' =
                 StreamFirstTimestamp(historial_data_end_date + elapsed, timestamp_increment)
  /\ UNCHANGED <<arguments, lookup, hi, accumulators, count, live, timestamp, value, output, accepted>>

\* data.py 146-149 and line 102: the stream yields its next item.
Yielded(v) ==
  /\ pc = "await"
  /\ count < MaxLive
  /\ timestamp' = stream_timestamp
  /\ value' = v
  /\ live' = Append(live, [timestamp |-> stream_timestamp, value |-> v])
  /\ stream_timestamp' = stream_timestamp + timestamp_increment
  /\ count' = count + 1

\* Lines 104-106: an invalid live value is discarded.
LiveDiscard(v) ==
  /\ Yielded(v)
  /\ Invalid(v)
  /\ UNCHANGED <<arguments, pc, err, lookup, hi, accumulators, output, accepted>>

\* Lines 104-115: a live value that passes is admitted.
LiveAdmit(v) ==
  /\ Yielded(v)
  /\ ~Invalid(v)
  /\ rolling_sum' = XAdd(rolling_sum, v)
  /\ window_values' = Append(window_values, v)
  /\ rolling_squared_sum' = XAdd(rolling_squared_sum, Square(v))
  /\ window_squared_values' = Append(window_squared_values, Square(v))
  /\ accepted' = Append(accepted, v)
  /\ pc' = "admitted"
  /\ UNCHANGED <<arguments, err, lookup, hi, output>>

\* Lines 119-123: the statistics, the decision and the yield.
Decide ==
  /\ pc = "admitted"
  /\ LET outcome == Statistics(rolling_sum, rolling_squared_sum, window)
     IN  IF outcome = "ok"
           THEN /\ output' = Append(output,
                      [timestamp |-> timestamp, value |-> value,
                       is_outlier |-> IsOutlier(value, rolling_sum, rolling_squared_sum,
                                                window, threshold)])
                /\ pc' = "yielded"
                /\ err' = err
           ELSE /\ pc' = "raised"
                /\ err' = outcome
                /\ UNCHANGED output
  /\ UNCHANGED <<arguments, lookup, hi, accumulators, stream, timestamp, value, accepted>>

\* Variant of Evict: pop() in place of popleft(), the newest value leaves.
EvictPopsNewest ==
  /\ pc = "yielded"
  /\ IF window_values = <<>> \/ window_squared_values = <<>>
       THEN /\ pc' = "raised"
            /\ err' = "IndexError"
            /\ UNCHANGED accumulators
       ELSE /\ rolling_sum' = XSub(rolling_sum, Last(window_values))
            /\ window_values' = SubSeq(window_values, 1, Len(window_values) - 1)
            /\ rolling_squared_sum' = XSub(rolling_squared_sum, Last(window_squared_values))
            /\ window_squared_values' =
                 SubSeq(window_squared_values, 1, Len(window_squared_values) - 1)
            /\ pc' = "await"
            /\ err' = err
  /\ UNCHANGED <<arguments, lookup, hi, stream, timestamp, value, output, accepted>>

\* Variant of Evict: window_values.popleft() replaced by a read of
\* window_values[0], which leaves the value in the queue.
EvictPeeks ==
  /\ pc = "yielded"
  /\ IF window_values = <<>> \/ window_squared_values = <<>>
       THEN /\ pc' = "raised"
            /\ err' = "IndexError"
            /\ UNCHANGED accumulators
       ELSE /\ rolling_sum' = XSub(rolling_sum, Head(window_values))
            /\ window_values' = window_values
            /\ rolling_squared_sum' = XSub(rolling_squared_sum, Head(window_squared_values))
            /\ window_squared_values' = Tail(window_squared_values)
            /\ pc' = "await"
            /\ err' = err
  /\ UNCHANGED <<arguments, lookup, hi, stream, timestamp, value, output, accepted>>

\* Lines 126-130: the consumer asks for the next decision; the oldest value
\* leaves the window.
Evict ==
  /\ pc = "yielded"
  /\ IF window_values = <<>> \/ window_squared_values = <<>>
       THEN /\ pc' = "raised"
            /\ err' = "IndexError"
            /\ UNCHANGED accumulators
       ELSE /\ rolling_sum' = XSub(rolling_sum, Head(window_values))
            /\ window_values' = Tail(window_values)
            /\ rolling_squared_sum' = XSub(rolling_squared_sum, Head(window_squared_values))
            /\ window_squared_values' = Tail(window_squared_values)
            /\ pc' = "await"
            /\ err' = err
  /\ UNCHANGED <<arguments, lookup, hi, stream, timestamp, value, output, accepted>>

Next ==
  \/ Start
  \/ \E v \in domain : BootstrapDiscard(v)
  \/ \E v \in domain : BootstrapAccept(v)
  \/ \E elapsed \in Elapsed : StartStream(elapsed)
  \/ \E v \in domain : LiveDiscard(v)
  \/ \E v \in domain : LiveAdmit(v)
  \/ Decide
  \/ Evict

Spec == Init /\ [][Next]_vars

SpecKnown == InitKnown /\ [][Next]_vars

SpecThreshold == InitThreshold /\ [][Next]_vars

\* ------------------------------------------------------- derived notions

RECURSIVE SumSeq(_)
SumSeq(s) == IF s = <<>> THEN Fin(0) ELSE XAdd(Head(s), SumSeq(Tail(s)))

RECURSIVE SumSquaresSeq(_)
SumSquaresSeq(s) == IF s = <<>> THEN Fin(0) ELSE XAdd(Square(Head(s)), SumSquaresSeq(Tail(s)))

\* A finite, non-negative number: a valid sample in the specification's sense.
FiniteNonNegative(v) == v.t = "fin" /\ v.n >= 0

\* A negative number or a value that is no number.
NegativeOrNonNumeric(v) == v.t = "str" \/ (v.t = "fin" /\ v.n < 0)

\* The live items that passed the engine's sanity check, in order.
LiveAccepted == SelectSeq(live, LAMBDA item : ~Invalid(item.value))

\* The historical values that passed the sanity check, in order.
HistoricalAccepted == SubSeq(accepted, 1, Len(accepted) - Len(LiveAccepted))

\* The bootstrap loop has read every historical item, none was discarded,
\* and all are finite non-negative numbers.
AllValidHistory ==
  /\ pc \in {"await", "admitted", "yielded", "raised"}
  /\ hi = historical_energy_data.steps
  /\ Len(HistoricalAccepted) = historical_energy_data.steps
  /\ \A i \in 1..Len(HistoricalAccepted) : FiniteNonNegative(HistoricalAccepted[i])

\* Every live item so far is a finite non-negative number.
AllValidLive == \A i \in 1..Len(live) : FiniteNonNegative(live[i].value)

\* The statistics of the current live sample have been computed: a decision
\* was yielded for it, or lines 119-121 raised.
StatisticsComputed ==
  \/ pc = "yielded"
  \/ pc = "raised" /\ err \in {"ZeroDivisionError", "MathDomainError"}

RollingStdIsZero == Radicand(rolling_sum, rolling_squared_sum, window) = Fin(0)

\* ----------------------------------------------------------------- claims

\* C1 (as claimed): whenever the rolling standard deviation computed for an
\* accepted live sample is 0, a decision with is_outlier = False is emitted
\* for it and the engine does not fail.
C1_ZeroVarianceSafety ==
  (StatisticsComputed /\ RollingStdIsZero) =>
    (pc = "yielded" /\ Last(output).is_outlier = FALSE)

\* The known-distribution fixture: window = 4, threshold = 2.25, the window
\* held 10, 10, 10, 10 before `arriving` was admitted.
KnownCase(arriving) ==
  /\ window = 4
  /\ threshold = <<9, 4>>
  /\ value = Fin(arriving)
  /\ window_values = <<Fin(10), Fin(10), Fin(10), Fin(10), Fin(arriving)>>
  /\ StatisticsComputed

\* C2 (as claimed): with the window holding 10, 10, 10, 10 and window = 4,
\* threshold = 2.25, the arriving value 100 is flagged is_outlier = True.
C2_KnownOutlierFlagged ==
  KnownCase(100) => (pc = "yielded" /\ Last(output).is_outlier = TRUE)

\* C2 (amended): in that case a decision is emitted for 100 and it carries
\* is_outlier = False.
C2_KnownOutlierNotFlagged ==
  KnownCase(100) => (pc = "yielded" /\ Last(output).is_outlier = FALSE)

C2_Witness == KnownCase(100) /\ pc = "yielded" /\ Last(output).value = Fin(100)

\* C3 (as claimed): with the window holding 10, 10, 10, 10 and window = 4,
\* threshold = 2.25, a decision with is_outlier = False is emitted for the
\* arriving value 11 and the statistics do not fail.
C3_KnownInlierNotFlagged ==
  KnownCase(11) => (pc = "yielded" /\ Last(output).is_outlier = FALSE)

\* C4 (as claimed): with an all-valid history and valid live samples, the
\* queue holds `window` values after each eviction and `window + 1` values
\* right after a live sample is admitted (stated for the default increment,
\* the one the historical lookup steps by).
C4_WindowSizeAsClaimed ==
  (AllValidHistory /\ AllValidLive /\ timestamp_increment = DefaultIncrement) =>
    /\ (pc = "await" /\ output # <<>>) => Len(window_values) = window
    /\ pc = "admitted" => Len(window_values) = window + 1

\* C4 (amended): with an all-valid history and valid live samples, the queue
\* holds after each eviction as many values as the historical lookup
\* returned, and one more right after a live sample is admitted; these are
\* window - 1 and window when the lookup returned window - 1 samples.
C4_WindowSizeFollowsHistory ==
  (AllValidHistory /\ AllValidLive) =>
    /\ (pc = "await" /\ output # <<>>) =>
         Len(window_values) = historical_energy_data.steps
    /\ pc = "admitted" => Len(window_values) = historical_energy_data.steps + 1
    /\ historical_energy_data.steps = window - 1 =>
         /\ (pc = "await" /\ output # <<>>) => Len(window_values) = window - 1
         /\ pc = "admitted" => Len(window_values) = window

C4_Witness ==
  /\ AllValidHistory
  /\ AllValidLive
  /\ pc = "admitted"
  /\ output # <<>>
  /\ historical_energy_data.steps = window - 1
  /\ Len(window_values) = window

\* C5 (as claimed): bootstrapped through get_historical_energy_data with
\* the default increment and an all-valid history, the window holds exactly
\* window - 1 values when the first live sample is awaited, whatever the
\* clock reads.
C5_BootstrapHoldsWindowMinusOne ==
  (pc = "await" /\ count = 0 /\ AllValidHistory
     /\ timestamp_increment = DefaultIncrement) =>
    Len(window_values) = window - 1

\* window ** 2 times the sum of squared deviations of the values of s from
\* total / window.
RECURSIVE SquaredDeviations(_, _, _)
SquaredDeviations(s, total, w) ==
  IF s = <<>> THEN Fin(0)
  ELSE XAdd(Square(XSub(XMul(Fin(w), Head(s)), total)),
            SquaredDeviations(Tail(s), total, w))

\* C6 (as claimed): at each emitted decision, on valid samples, the mean
\* and the sample variance derived from the accumulators equal those
\* recomputed over the last `window` accepted values (both are compared as
\* numerators over the same denominators, window and window ** 2 * (window - 1)).
C6_IncrementalAgreesWithRescan ==
  (pc = "yielded" /\ AllValidHistory /\ AllValidLive /\ Len(accepted) >= window) =>
    LET recent == LastN(accepted, window)
    IN  /\ rolling_sum = SumSeq(recent)
        /\ Radicand(rolling_sum, rolling_squared_sum, window)
             = SquaredDeviations(recent, SumSeq(recent), window)

\* C7 (as claimed): after bootstrap, after each admit and after each evict,
\* rolling_sum is the sum of the values in window_values and
\* rolling_squared_sum the sum of their squares.
C7_AccumulatorsMatchQueue ==
  pc \in {"bootstrap", "await", "admitted", "yielded"} =>
    /\ rolling_sum = SumSeq(window_values)
    /\ rolling_squared_sum = SumSquaresSeq(window_values)

\* C8: a step that reads a negative or non-numeric sample, historical or
\* live, leaves the accumulators, the queues and the output unchanged and
\* leaves the loop where it was, ready for the next sample.
C8_InvalidSampleSkipped ==
  [][((hi' = hi + 1 \/ count' = count + 1) /\ NegativeOrNonNumeric(value')) =>
       (UNCHANGED <<accumulators, output>> /\ pc' = pc /\ err' = err)]_vars

\* A negative historical sample and a non-numeric live sample were skipped
\* and the live sample after them was decided.
C8_Witness ==
  /\ hi > Len(HistoricalAccepted)
  /\ Len(live) = 2
  /\ NegativeOrNonNumeric(live[1].value)
  /\ Len(output) = 1
  /\ output[1].timestamp = live[2].timestamp

\* C9 (as claimed): a NaN or infinite sample is rejected: no such value is
\* ever held in the window or carried by a decision.
C9_NonFiniteDiscarded ==
  /\ \A i \in 1..Len(window_values) : IsFinite(window_values[i])
  /\ \A i \in 1..Len(output) : IsFinite(output[i].value)

\* The (timestamp, value) pairs of the decisions emitted so far.
DecisionItems ==
  [i \in 1..Len(output) |-> [timestamp |-> output[i].timestamp, value |-> output[i].value]]

\* C10 (as claimed): the decisions carry, in order, exactly the live items
\* that passed validation: one decision for each of them (the item being
\* processed excepted until its decision is due) and none for anything else.
C10_OneDecisionPerValidItem ==
  DecisionItems =
    IF pc = "admitted" THEN SubSeq(LiveAccepted, 1, Len(LiveAccepted) - 1)
    ELSE LiveAccepted

\* C11: when window <= 1 the engine raises its ValueError at once: once it
\* has started it has raised, the historical lookup was never called, no
\* historical or live item was read and no decision was emitted.
C11_WindowRejectedFirst ==
  (window <= 1 /\ pc # "start") =>
    /\ pc = "raised"
    /\ err = "WindowValueError"
    /\ lookups = 0
    /\ hi = 0
    /\ count = 0
    /\ live = <<>>
    /\ output = <<>>

C11_Witness == window = 1 /\ pc = "raised" /\ err = "WindowValueError"

\* The stream has run its first iteration (data.py 137-144).
StreamStarted ==
  \/ pc \in {"await", "admitted", "yielded"}
  \/ pc = "raised" /\ err \in {"ZeroDivisionError", "MathDomainError", "IndexError"}

\* Timestamp of the last item of the list the lookup returned.
LastHistoricalTimestamp ==
  historical_energy_data.timestamp
    + (historical_energy_data.steps - 1) * historical_energy_data.increment

\* Timestamp of the first item the stream yields.
FirstStreamTimestamp == stream_timestamp - count * timestamp_increment

\* C12 (as claimed): the most recent historical sample primed into the
\* window is strictly older than the first sample of the live stream.
C12_HistoryPrecedesStream ==
  (StreamStarted /\ AllValidHistory /\ historical_energy_data.steps > 0) =>
    LastHistoricalTimestamp < FirstStreamTimestamp

\* C13 (as claimed): for every timestamp_increment > 0 the historical list
\* holds one sample per multiple of timestamp_increment in
\* [now - (window - 1) * timestamp_increment, now], timestamp_increment apart.
C13_IncrementGovernsHistory ==
  (lookups > 0 /\ timestamp_increment > 0) =>
    LET end == historial_data_end_date
        start == end - (window - 1) * timestamp_increment
    IN  /\ historical_energy_data.increment = timestamp_increment
        /\ historical_energy_data.timestamp
             = Ceil(start, timestamp_increment) * timestamp_increment
        /\ historical_energy_data.steps
             = Floor(end, timestamp_increment) - Ceil(start, timestamp_increment) + 1

\* The z-score of the current sample, (value - rolling_mean) / rolling_std,
\* is NaN, respectively 0 (for statistics that did not raise).
ZScoreIsNaN ==
  LET rad == Radicand(rolling_sum, rolling_squared_sum, window)
      dev == Deviation(value, rolling_sum, window)
  IN  rad.t = "nan" \/ dev.t = "nan" \/ (rad.t = "inf" /\ dev.t # "fin")

ZScoreIsZero ==
  LET rad == Radicand(rolling_sum, rolling_squared_sum, window)
      dev == Deviation(value, rolling_sum, window)
  IN  dev = Fin(0) \/ (rad.t = "inf" /\ dev.t = "fin")

\* No configuration error was raised.
NoConfigurationError == err \notin {"WindowValueError", "StreamValueError"}

\* C14 (as claimed, stated for finite non-negative samples): with
\* threshold <= 0 no configuration error is raised and every decision
\* emitted carries is_outlier = True.
C14_NonPositiveThresholdFlagsAll ==
  (threshold[1] <= 0 /\ window > 1
     /\ ~StreamArgumentsInvalid(timestamp_increment, stream_delay)) =>
    /\ NoConfigurationError
    /\ (pc = "yielded" /\ AllValidHistory /\ AllValidLive) =>
         Last(output).is_outlier = TRUE

\* C14 (amended): with threshold <= 0 no configuration error is raised and
\* every decision emitted carries is_outlier = True, except when the
\* z-score is 0 and threshold = 0, or the z-score is NaN.
C14_NonPositiveThresholdFlagsNonZero ==
  (threshold[1] <= 0 /\ window > 1
     /\ ~StreamArgumentsInvalid(timestamp_increment, stream_delay)) =>
    /\ NoConfigurationError
    /\ pc = "yielded" =>
         (Last(output).is_outlier
            = (~ZScoreIsNaN /\ (threshold[1] < 0 \/ ~ZScoreIsZero)))

\* A decision flagged under threshold 0, after one under threshold 0 too.
C14_Witness ==
  /\ threshold = <<0, 1>>
  /\ pc = "yielded"
  /\ Len(output) = 2
  /\ AllValidLive
  /\ Last(output).is_outlier = TRUE

\* The oldest accepted value the queue still holds.
OldestHeld == accepted[Len(accepted) - Len(window_values) + 1]

\* C15: in the live loop a sample is taken only when no cycle is open; it is
\* admitted, then its decision is computed and emitted with the queue
\* untouched, then the head of the queue, the oldest accepted value still
\* held, leaves it while that value and its square are subtracted from the
\* accumulators; only then can the next sample be taken.
C15_CycleOrderAndFifoEviction ==
  [][/\ count' # count => (pc = "await" /\ count' = count + 1)
     /\ (pc' = "admitted" /\ pc # "admitted") =>
          /\ pc = "await"
          /\ count' = count + 1
          /\ window_values' = Append(window_values, value')
          /\ output' = output
     /\ output' # output =>
          /\ pc = "admitted"
          /\ pc' = "yielded"
          /\ Len(output') = Len(output) + 1
          /\ Last(output').value = value
          /\ UNCHANGED accumulators
     /\ (pc = "admitted" /\ pc' # "admitted") => pc' \in {"yielded", "raised"}
     /\ (pc = "yielded" /\ pc' # "yielded") =>
          /\ pc' = "await"
          /\ Head(window_values) = OldestHeld
          /\ window_values' = Tail(window_values)
          /\ rolling_sum' = XSub(rolling_sum, Head(window_values))
          /\ rolling_squared_sum' = XSub(rolling_squared_sum, Square(Head(window_values)))
          /\ UNCHANGED <<count, live, output>>
     /\ (pc \in {"await", "admitted", "yielded"} /\ Len(window_values') < Len(window_values)) =>
          pc = "yielded"
    ]_vars

\* Two cycles have completed on a queue whose first two values differed, and
\* the queue holds the most recent accepted values.
C15_Witness ==
  /\ pc = "await"
  /\ Len(output) = 2
  /\ Len(window_values) >= 2
  /\ accepted[1] # accepted[2]
  /\ window_values = LastN(accepted, Len(accepted) - 2)

\* Every value admitted to the window so far is a finite non-negative number.
AllAcceptedFinite == \A i \in 1..Len(accepted) : FiniteNonNegative(accepted[i])

\* C16 (as claimed): with the default increment and only finite non-negative
\* values admitted, the variance radicand of every live sample whose
\* statistics are computed is >= 0 and math.sqrt does not fail.
C16_RadicandNeverNegative ==
  (/\ timestamp_increment = DefaultIncrement
   /\ AllAcceptedFinite
   /\ pc = "admitted" \/ StatisticsComputed) =>
    /\ Radicand(rolling_sum, rolling_squared_sum, window).n >= 0
    /\ err # "MathDomainError"

\* C17: once the stream is consumed the queue holds, between cycles, exactly
\* as many values as the bootstrap accepted, and one more while a cycle is
\* open, whatever live samples arrive; the statistics of every decision are
\* computed with the nominal window as the divisor.
C17_WindowLengthPermanent ==
  /\ pc = "await" => Len(window_values) = Len(HistoricalAccepted)
  /\ pc \in {"admitted", "yielded"} =>
       Len(window_values) = Len(HistoricalAccepted) + 1
  /\ pc = "yielded" =>
       Last(output).is_outlier
         = IsOutlier(value, rolling_sum, rolling_squared_sum, window, threshold)

\* A historical sample was discarded, decisions have been emitted, and after
\* the last eviction the queue is shorter than window - 1.
C17_Witness ==
  /\ pc = "await"
  /\ Len(output) = 2
  /\ hi > Len(HistoricalAccepted)
  /\ Len(HistoricalAccepted) >= 1
  /\ Len(window_values) = Len(HistoricalAccepted)
  /\ Len(window_values) < window - 1
  /\ AllValidLive

\* The statistics of the decision just emitted were computed over exactly
\* window values, the arriving one included.
ExactlyWindowValues == pc = "yielded" /\ Len(window_values) = window

\* The z-score of the sample just decided is at most (window - 1) /
\* sqrt(window): squared and cleared of denominators,
\* window * (value - mean)^2 * (window - 1) <= (window - 1)^2 * radicand.
ZScoreWithinBound ==
  LET rad == Radicand(rolling_sum, rolling_squared_sum, window)
      dev == Deviation(value, rolling_sum, window)
  IN  (rad.t = "fin" /\ dev.t = "fin") =>
        dev.n * dev.n * window <= (window - 1) * rad.n

\* threshold^2 * window >= (window - 1)^2.
ThresholdCoversBound ==
  threshold[1] * threshold[1] * window
    >= (window - 1) * (window - 1) * threshold[2] * threshold[2]

\* C18 (as claimed, stated for finite samples): when the statistics are
\* computed over exactly window values the z-score is at most
\* (window - 1) / sqrt(window), and under any threshold with
\* threshold^2 * window >= (window - 1)^2 the sample is not flagged.
C18_BoundedZScoreNeverFlagged ==
  (ExactlyWindowValues /\ AllAcceptedFinite
     /\ timestamp_increment = DefaultIncrement) =>
    /\ ZScoreWithinBound
    /\ ThresholdCoversBound => Last(output).is_outlier = FALSE

\* C18 (amended): when the statistics are computed over exactly window
\* values the z-score is at most (window - 1) / sqrt(window), and under any
\* threshold >= 0 with threshold^2 * window >= (window - 1)^2 the sample is
\* not flagged.
C18_BoundedZScoreNotFlaggedNonNegative ==
  ExactlyWindowValues =>
    /\ ZScoreWithinBound
    /\ (threshold[1] >= 0 /\ ThresholdCoversBound) =>
         Last(output).is_outlier = FALSE

\* A decision over exactly window finite values, the arriving one at the
\* bound's distance from the mean, not flagged under threshold 2.25.
C18_Witness ==
  /\ ExactlyWindowValues
  /\ AllAcceptedFinite
  /\ threshold = <<9, 4>>
  /\ ThresholdCoversBound
  /\ value # Head(window_values)
  /\ Deviation(value, rolling_sum, window).n # 0
  /\ Last(output).is_outlier = FALSE

\* C19: whenever the eviction step is about to pop, window_values and
\* window_squared_values are non-empty and of equal length, whatever the
\* history (empty or wholly discarded included) and the live values; the
\* engine never fails with an IndexError.
C19_EvictionNeverOnEmptyQueue ==
  /\ pc = "yielded" =>
       /\ Len(window_values) >= 1
       /\ Len(window_squared_values) = Len(window_values)
       /\ Last(window_values) = value
  /\ Len(window_squared_values) = Len(window_values)
  /\ err # "IndexError"

\* The history left the queue empty (no sample, or all discarded), a second
\* live decision has been emitted and the eviction is about to pop the one
\* value held.
C19_Witness ==
  /\ pc = "yielded"
  /\ HistoricalAccepted = <<>>
  /\ Len(output) = 2
  /\ Len(window_values) = 1

====
